---- MODULE Spec2Model ----
(***************************************************************************)
(* Model of the BTC regime engine: the 4H range gate (range_gate.py), the  *)
(* daily trend gate (trend_gate.py), the regime combinator                 *)
(* (regime_engine.py) and the trade plan generator (trade_plan.py).        *)
(*                                                                         *)
(* Prices are integers (cents).  Python floats are modelled as exact       *)
(* rationals [n, d]; a percentage threshold is kept in hundredths of a     *)
(* percent, so that 1.5% is 150 and 0.25% is 25, and every comparison is   *)
(* done by cross-multiplication.                                           *)
(***************************************************************************)
EXTENDS Integers, Sequences, FiniteSets, TLC

VARIABLES
    feed4h,           \* what the 4H provider answers: a candle sequence or ProviderDown
    feedDaily,        \* what the daily provider answers
    pc,               \* position of the running call
    candles,          \* range_gate_decision: local `candles`
    days,             \* range_gate_decision: loop variable `days`
    last_diagnostics, \* range_gate_decision: local `last_diagnostics`
    evaluated,        \* history: the evaluate_window calls made, in order
    range_result,     \* value returned by range_gate_decision
    daily_candles,    \* decide_regime: local `daily_candles`
    trend_result,     \* value returned by evaluate_trend
    decision,         \* value returned by decide_regime
    error,            \* the exception that left the call, or NoError
    fetches,          \* history: provider requests made, in order
    plan_arg,         \* argument handed to the trade plan generator
    plan_out,         \* what the trade plan generator produced
    label,            \* range_gate.py __main__: the regime classify_regime returned
    regime_log,       \* the file regime_log.csv
    trade_plan_log         \* the file trade_plan_log.csv

vars == <<feed4h, feedDaily, pc, candles, days, last_diagnostics, evaluated,
          range_result, daily_candles, trend_result, decision, error, fetches,
          plan_arg, plan_out, label, regime_log, trade_plan_log>>

\* Python's None, for a value that was not produced.
None == [none |-> TRUE]

\* A provider answer: the rows it sent, or a failed request.
Answer(rows) == [ok |-> TRUE, fault |-> "none", rows |-> rows]

\* The request failed (r.raise_for_status() raises).
ProviderDown == [ok |-> FALSE, fault |-> "http", rows |-> <<>>]

\* Kraken answered with a non-empty "error" list.
ProviderError == [ok |-> FALSE, fault |-> "api", rows |-> <<>>]

NoError == "none"

\* A path where no file exists, and a file holding rows.
Absent == [exists |-> FALSE, rows |-> <<>>]

File(rows) == [exists |-> TRUE, rows |-> rows]

\* obj.name exists (reading a missing attribute raises AttributeError).
HasAttr(obj, name) == name \in DOMAIN obj

(***************************************************************************)
(* config.py and the constants of trend_gate.py.  A percentage is kept in   *)
(* hundredths of a percent.                                                *)
(***************************************************************************)
LOOKBACK_DAYS_MIN == 7
LOOKBACK_DAYS_MAX == 10
MIN_RANGE_WIDTH_PCT == 150       \* 1.5
MIN_CLOSES_INSIDE_PCT == 9500    \* 95.0
MIN_REJECTIONS == 2
MIN_BOUNCES == 2
PROXIMITY_PCT == 25              \* 0.25
TREND_EXPANSION_PCT == 100       \* 1.00
CANDLES_PER_DAY == 6
FETCH_LIMIT == 80                \* fetch_candles(limit=80)

LOOKBACK_DAYS == 8
MIN_NET_MOVE_PCT == 400          \* 4.0
MIN_DIRECTIONAL_CLOSES == 5
MAX_RETRACE_PCT == 5000          \* 50.0

(***************************************************************************)
(* Arithmetic helpers                                                      *)
(***************************************************************************)
Abs(x) == IF x < 0 THEN -x ELSE x

Max(a, b) == IF a >= b THEN a ELSE b

Min(a, b) == IF a <= b THEN a ELSE b

\* The rational n/d, d > 0.
Rat(n, d) == [n |-> n, d |-> d]

RatAbs(r) == [n |-> Abs(r.n), d |-> r.d]

\* r compared with a threshold given in hundredths of a percent.
RatLT(r, thr) == r.n * 100 < thr * r.d

RatGT(r, thr) == r.n * 100 > thr * r.d

RatGE(r, thr) == ~RatLT(r, thr)

RatLE(r, thr) == ~RatGT(r, thr)

\* f"{x:.2f}" and f"{x:.1f}": x rounded to `unit` parts of one (100 or 10),
\* as the integer count of those parts (x >= 0 here).
Fmt(r, unit) == (2 * r.n * unit + r.d) \div (2 * r.d)

\* percent_change(a, b) = (a - b) / b * 100.0
percent_change(a, b) == Rat((a - b) * 100, b)

\* List slices: s[-n:] and the maximum / minimum of a non-empty list of numbers.
Tail_n(s, n) == IF n >= Len(s) THEN s ELSE SubSeq(s, Len(s) - n + 1, Len(s))

RECURSIVE MaxIn(_, _, _)
MaxIn(s, lo, hi) ==
    IF lo = hi THEN s[lo]
    ELSE LET mid == (lo + hi) \div 2
         IN  Max(MaxIn(s, lo, mid), MaxIn(s, mid + 1, hi))

RECURSIVE MinIn(_, _, _)
MinIn(s, lo, hi) ==
    IF lo = hi THEN s[lo]
    ELSE LET mid == (lo + hi) \div 2
         IN  Min(MinIn(s, lo, mid), MinIn(s, mid + 1, hi))

SeqMax(s) == MaxIn(s, 1, Len(s))

SeqMin(s) == MinIn(s, 1, Len(s))

(***************************************************************************)
(* Candle                                                                  *)
(***************************************************************************)
Candle(t, o, h, l, c) == [open_time |-> t, open |-> o, high |-> h, low |-> l, close |-> c]

\* One line of a reasons list: the f-string's text and the number it prints.
Item(k, v) == [k |-> k, v |-> v]

FAILURES == Item("FAILURES:", 0)

(***************************************************************************)
(* range_gate.py: evaluate_window                                          *)
(***************************************************************************)
\* upper * (1 - PROXIMITY_PCT / 100) and lower * (1 + PROXIMITY_PCT / 100)
UpperNear(upper) == Rat(upper * (10000 - PROXIMITY_PCT), 10000)

LowerNear(lower) == Rat(lower * (10000 + PROXIMITY_PCT), 10000)

\* c.high >= upper_near and c.close < upper and c.close >= upper_near
IsUpperRejection(c, upper) ==
    LET upper_near == UpperNear(upper)
    IN  /\ c.high * upper_near.d >= upper_near.n
        /\ c.close < upper
        /\ c.close * upper_near.d >= upper_near.n

\* c.low <= lower_near and c.close > lower and c.close <= lower_near
IsLowerBounce(c, lower) ==
    LET lower_near == LowerNear(lower)
    IN  /\ c.low * lower_near.d <= lower_near.n
        /\ c.close > lower
        /\ c.close * lower_near.d <= lower_near.n

WindowOf_all(cs, d) == cs

\* window = candles[-needed:]
WindowOf(cs, d) == Tail_n(cs, d * CANDLES_PER_DAY)

evaluate_window(cs, d) ==
    LET window == WindowOf(cs, d)
        highs == [i \in 1..Len(window) |-> window[i].high]
        lows == [i \in 1..Len(window) |-> window[i].low]
        upper == SeqMax(highs)
        lower == SeqMin(lows)
        \* Rule 5: range width
        range_width_pct == Rat((upper - lower) * 100, lower)
        r5 == IF RatLT(range_width_pct, MIN_RANGE_WIDTH_PCT)
              THEN <<Item("Range width {:.2f}% < MIN_RANGE_WIDTH_PCT", Fmt(range_width_pct, 100))>>
              ELSE <<>>
        \* Rule 4: closes inside range
        inside == Cardinality({i \in 1..Len(window) :
                      lower <= window[i].close /\ window[i].close <= upper})
        inside_pct == Rat(inside * 100, Len(window))
        r4 == IF RatLT(inside_pct, MIN_CLOSES_INSIDE_PCT)
              THEN <<Item("Closes inside range {:.1f}% < MIN_CLOSES_INSIDE_PCT", Fmt(inside_pct, 10))>>
              ELSE <<>>
        \* Rule 2: upper boundary rejections
        upper_rejections == Cardinality({i \in 1..Len(window) :
                                IsUpperRejection(window[i], upper)})
        r2 == IF upper_rejections < MIN_REJECTIONS
              THEN <<Item("Upper rejections {} < MIN_REJECTIONS", upper_rejections)>>
              ELSE <<>>
        \* Rule 3: lower boundary bounces
        lower_bounces == Cardinality({i \in 1..Len(window) :
                             IsLowerBounce(window[i], lower)})
        r3 == IF lower_bounces < MIN_BOUNCES
              THEN <<Item("Lower bounces {} < MIN_BOUNCES", lower_bounces)>>
              ELSE <<>>
        \* Rule 6: no recent directional expansion
        recent == Tail_n(window, CANDLES_PER_DAY * 2)
        net_move == RatAbs(percent_change(recent[Len(recent)].close, recent[1].close))
        r6 == IF RatGT(net_move, TREND_EXPANSION_PCT)
              THEN <<Item("Recent 2d move {:.2f}% > TREND_EXPANSION_PCT", Fmt(net_move, 100))>>
              ELSE <<>>
        reasons == r5 \o r4 \o r2 \o r3 \o r6
        diagnostics == << Item("Range width: {:.2f}%", Fmt(range_width_pct, 100)),
                          Item("Closes inside: {:.1f}%", Fmt(inside_pct, 10)),
                          Item("Upper rejections: {}", upper_rejections),
                          Item("Lower bounces: {}", lower_bounces),
                          Item("Recent 2d move: {:.2f}%", Fmt(net_move, 100)) >>
    IN  IF reasons # <<>>
        THEN [valid |-> FALSE, out |-> diagnostics \o <<FAILURES>> \o reasons]
        ELSE [valid |-> TRUE, out |-> diagnostics]

RangeDecision(d, r) == [decision |-> d, reasons |-> r]

(***************************************************************************)
(* The 4H candle sequences the provider may answer with.  Every candle is  *)
(* the quiet candle Mid except at a few offsets from the end, which sit on *)
(* the edges of the windows the gate looks at: the last candle, the first  *)
(* candle of the trailing two days, three candles inside every window, the *)
(* first candle of the 7-day window, the candle just before it and the     *)
(* first candle of the 10-day window.  Candles older than the longest      *)
(* window are spikes, so a rule that read them would see another range.    *)
(***************************************************************************)
MaxExtra4h == 1     \* candles answered beyond the longest window

Kinds == {"Mid", "Up", "Lo", "Out"}

\* Mid: quiet candle around 104.00.  Up: touches 108.00 and closes just under
\* it.  Lo: touches 100.00 and closes just above it.  Out: a row whose close
\* lies above every high (the code does not validate provider rows).  In a
\* narrow feed Up and Lo touch 104.50 and 103.50 instead.  Edge: touches
\* 105.05, which over a low of 103.50 is a width just under 1.5%.
KindCandle(k, t, narrow) ==
    CASE k = "Mid" -> Candle(t, 10400, 10430, 10370, 10400)
      [] k = "Up" /\ ~narrow -> Candle(t, 10773, 10800, 10723, 10773)
      [] k = "Lo" /\ ~narrow -> Candle(t, 10025, 10075, 10000, 10025)
      [] k = "Up" /\ narrow -> Candle(t, 10430, 10450, 10400, 10430)
      [] k = "Lo" /\ narrow -> Candle(t, 10370, 10400, 10350, 10370)
      [] k = "Out" -> Candle(t, 10400, 10430, 10370, 10900)
      [] k = "Edge" -> Candle(t, 10480, 10505, 10430, 10480)
      [] k = "Spike" -> Candle(t, 10400, 12000, 9000, 10400)

MinNeeded == LOOKBACK_DAYS_MAX * CANDLES_PER_DAY

\* The offsets from the end (1 = the newest candle) that slot j fills.
SlotOffsets(j) ==
    CASE j = 1 -> {1}
      [] j = 2 -> {2 * CANDLES_PER_DAY}
      [] j = 3 -> {29, 30, 31}
      [] j = 4 -> {LOOKBACK_DAYS_MIN * CANDLES_PER_DAY}
      [] j = 5 -> {LOOKBACK_DAYS_MIN * CANDLES_PER_DAY + 1}
      [] j = 6 -> {MinNeeded}

Slots == 1..6

Feed4hOf(n, ks, narrow) ==
    [i \in 1..n |->
        LET off == n - i + 1
        IN  IF \E j \in Slots : off \in SlotOffsets(j)
            THEN KindCandle(ks[CHOOSE j \in Slots : off \in SlotOffsets(j)], i, narrow)
            ELSE IF off > MinNeeded THEN KindCandle("Spike", i, narrow)
            ELSE KindCandle("Mid", i, narrow)]

\* The provider answers with at most `limit` rows.
Lens4h == (MinNeeded - 1)..Min(MinNeeded + MaxExtra4h, FETCH_LIMIT)

\* Answers of the lengths lens; rows with a close outside their own high and
\* low are drawn for the length min_needed only.
Feeds4h(lens) ==
    {Answer(Feed4hOf(MinNeeded, ks, FALSE)) : ks \in [Slots -> Kinds]}
    \cup {Answer(Feed4hOf(n, ks, FALSE)) : n \in lens, ks \in [Slots -> Kinds \ {"Out"}]}
    \cup {Answer(Feed4hOf(MinNeeded, ks, TRUE)) : ks \in [Slots -> Kinds \ {"Out"}]}

(***************************************************************************)
(* range_gate.py: fetch_candles and range_gate_decision                    *)
(***************************************************************************)
\* What a fetch hands back: the parsed candles, or the exception it raised.
Returned(rows) == [raised |-> FALSE, exc |-> NoError, rows |-> rows]

Raised(exc) == [raised |-> TRUE, exc |-> exc, rows |-> <<>>]

\* fetch_candles(): r.raise_for_status() raises when the request failed;
\* otherwise every row becomes a Candle.
fetch_candles(answer) ==
    IF ~answer.ok THEN Raised("HTTPError") ELSE Returned(answer.rows)

\* range(config.LOOKBACK_DAYS_MIN, config.LOOKBACK_DAYS_MAX + 1), line 223.
LoopDays_descending ==
    [i \in 1..(LOOKBACK_DAYS_MAX - LOOKBACK_DAYS_MIN + 1) |-> LOOKBACK_DAYS_MAX - i + 1]

LoopDays ==
    [i \in 1..(LOOKBACK_DAYS_MAX - LOOKBACK_DAYS_MIN + 1) |-> LOOKBACK_DAYS_MIN + i - 1]

\* The position of d in the loop's range.
LoopIndex(d) == CHOOSE i \in 1..Len(LoopDays) : LoopDays[i] = d

InsufficientCandles_min(cs) == Len(cs) < LOOKBACK_DAYS_MIN * CANDLES_PER_DAY

\* The length check of range_gate_decision, line 215.
InsufficientCandles(cs) == Len(cs) < MinNeeded

\* range_gate_decision, lines 212-221: the fetch, the length check and the
\* start of the search.  An exception of fetch_candles is not caught.
FetchCandles ==
    /\ pc = "range_fetch"
    /\ fetches' = Append(fetches, "4h")
    /\ IF fetch_candles(feed4h).raised
       THEN /\ error' = fetch_candles(feed4h).exc
            /\ pc' = "raised"
            /\ UNCHANGED <<candles, days, last_diagnostics, range_result>>
       ELSE /\ candles' = fetch_candles(feed4h).rows
            /\ error' = error
            /\ IF InsufficientCandles(fetch_candles(feed4h).rows)
               THEN /\ range_result' = RangeDecision("NO RANGE",
                                          <<Item("Insufficient candle data", 0)>>)
                    /\ pc' = "range_return"
                    /\ UNCHANGED <<days, last_diagnostics>>
               ELSE /\ last_diagnostics' = <<>>
                    /\ days' = LoopDays[1]
                    /\ pc' = "range_loop"
                    /\ UNCHANGED range_result
    /\ UNCHANGED <<feed4h, feedDaily, evaluated, daily_candles, trend_result,
                   decision, plan_arg, plan_out,
                   label, regime_log, trade_plan_log>>

\* One iteration of `for days in range(LOOKBACK_DAYS_MIN, LOOKBACK_DAYS_MAX + 1)`.
RangeLoopStep ==
    /\ pc = "range_loop"
    /\ LET r == evaluate_window(candles, days)
       IN  /\ evaluated' = Append(evaluated, [days |-> days, valid |-> r.valid])
           /\ IF r.valid
              THEN /\ range_result' = RangeDecision("RANGE VALID",
                          <<Item("Valid {}-day range detected", days)>> \o r.out)
                   /\ pc' = "range_return"
                   /\ UNCHANGED <<days, last_diagnostics>>
              ELSE /\ last_diagnostics' = r.out
                   /\ IF LoopIndex(days) < Len(LoopDays)
                      THEN /\ days' = LoopDays[LoopIndex(days) + 1]
                           /\ pc' = "range_loop"
                      ELSE /\ days' = days
                           /\ pc' = "range_exhausted"
                   /\ UNCHANGED range_result
    /\ UNCHANGED <<feed4h, feedDaily, candles, daily_candles, trend_result,
                   decision, error, fetches, plan_arg, plan_out,
                   label, regime_log, trade_plan_log>>

RangeNoRange_firstCandidate ==
    /\ pc = "range_exhausted"
    /\ range_result' = RangeDecision("NO RANGE",
            <<Item("Window checked: {} days", days)>>
            \o evaluate_window(candles, LOOKBACK_DAYS_MIN).out)
    /\ pc' = "range_return"
    /\ UNCHANGED <<feed4h, feedDaily, candles, days, last_diagnostics, evaluated,
                   daily_candles, trend_result, decision, error, fetches,
                   plan_arg, plan_out, label, regime_log, trade_plan_log>>

\* Lines 234-237: no candidate validated.
RangeNoRange ==
    /\ pc = "range_exhausted"
    /\ range_result' = RangeDecision("NO RANGE",
            <<Item("Window checked: {} days", days)>> \o last_diagnostics)
    /\ pc' = "range_return"
    /\ UNCHANGED <<feed4h, feedDaily, candles, days, last_diagnostics, evaluated,
                   daily_candles, trend_result, decision, error, fetches,
                   plan_arg, plan_out,
                   label, regime_log, trade_plan_log>>

(***************************************************************************)
(* range_gate.py: classify_regime                                          *)
(***************************************************************************)
\* ":" in d
HasColon(item) ==
    item.k \in {"Range width: {:.2f}%", "Closes inside: {:.1f}%",
                "Upper rejections: {}", "Lower bounces: {}",
                "Recent 2d move: {:.2f}%", "Window checked: {} days", "FAILURES:"}

\* k.strip() of k, v = d.split(":", 1)
KeyOf(item) ==
    CASE item.k = "Range width: {:.2f}%" -> "Range width"
      [] item.k = "Closes inside: {:.1f}%" -> "Closes inside"
      [] item.k = "Upper rejections: {}" -> "Upper rejections"
      [] item.k = "Lower bounces: {}" -> "Lower bounces"
      [] item.k = "Recent 2d move: {:.2f}%" -> "Recent 2d move"
      [] item.k = "Window checked: {} days" -> "Window checked"
      [] item.k = "FAILURES:" -> "FAILURES"

\* float(metrics.get(key, "0").replace("%", "")): the number as it was
\* printed, in the parts of one it was printed with (0 when the key is not
\* there); a later line with the same key replaces an earlier one.
Metric(diagnostics, key) ==
    LET at == {i \in 1..Len(diagnostics) :
                  HasColon(diagnostics[i]) /\ KeyOf(diagnostics[i]) = key}
    IN  IF at = {} THEN 0
        ELSE diagnostics[CHOOSE i \in at : \A j \in at : j <= i].v

classify_regime(diagnostics, verdict) ==
    IF verdict = "RANGE VALID" THEN "VALID_RANGE"
    ELSE LET closes_inside == Metric(diagnostics, "Closes inside")    \* tenths
             range_width == Metric(diagnostics, "Range width")        \* hundredths
             upper_rej == Metric(diagnostics, "Upper rejections")
             lower_bnc == Metric(diagnostics, "Lower bounces")
             recent_move == Metric(diagnostics, "Recent 2d move")     \* hundredths
         IN  IF recent_move > TREND_EXPANSION_PCT
             THEN "DIRECTIONAL_EXPANSION"
             ELSE IF /\ closes_inside * 10 >= MIN_CLOSES_INSIDE_PCT
                     /\ range_width >= MIN_RANGE_WIDTH_PCT
                     /\ (upper_rej < MIN_REJECTIONS \/ lower_bnc < MIN_BOUNCES)
                  THEN "CONTAINED_BUT_UNTESTED"
                  ELSE "CHAOTIC_OR_UNSTRUCTURED"

\* __main__ of range_gate.py: regime = classify_regime(decision.reasons,
\* decision.decision)
ClassifyRegime ==
    /\ pc = "range_return"
    /\ label' = classify_regime(range_result.reasons, range_result.decision)
    /\ pc' = "labelled"
    /\ UNCHANGED <<feed4h, feedDaily, candles, days, last_diagnostics, evaluated,
                   range_result, daily_candles, trend_result, decision, error,
                   fetches, plan_arg, plan_out, regime_log, trade_plan_log>>

(***************************************************************************)
(* trend_gate.py: evaluate_trend                                           *)
(***************************************************************************)
DailyCandle(t, o, h, l, c) == [time |-> t, open |-> o, high |-> h, low |-> l, close |-> c]

TrendDecision(dec, dir, rs, diag) ==
    [decision |-> dec, direction |-> dir, reasons |-> rs, diagnostics |-> diag]

\* The empty dict {}.
EmptyDict == [k \in {} |-> 0]

\* direction = "UP" if net_move_pct > 0 else "DOWN"
DirectionOf(net_move_pct) == IF net_move_pct.n > 0 THEN "UP" ELSE "DOWN"

\* Lines 90-95: closes that moved in `direction`.
DirectionalCloses(window, direction) ==
    Cardinality({i \in 2..Len(window) :
        \/ direction = "UP" /\ window[i].close > window[i - 1].close
        \/ direction = "DOWN" /\ window[i].close < window[i - 1].close})

\* Lines 105-117: a close against `direction`.
IsPullback(window, i, direction) ==
    \/ direction = "UP" /\ window[i].close < window[i - 1].close
    \/ direction = "DOWN" /\ window[i].close > window[i - 1].close

PullbackObserved(window, direction) ==
    \E i \in 2..Len(window) : IsPullback(window, i, direction)

\* ... that stayed on its side of expansion_origin = window[0].close.
PullbackFailed(window, direction) ==
    LET expansion_origin == window[1].close
    IN  \E i \in 2..Len(window) :
            \/ /\ direction = "UP"
               /\ window[i].close < window[i - 1].close
               /\ window[i].low > expansion_origin
            \/ /\ direction = "DOWN"
               /\ window[i].close > window[i - 1].close
               /\ window[i].high < expansion_origin

\* Lines 123-125: retrace_pct = abs(percent_change(trough, peak))
RetracePct(window) ==
    LET peak == SeqMax([i \in 1..Len(window) |-> window[i].high])
        trough == SeqMin([i \in 1..Len(window) |-> window[i].low])
    IN  RatAbs(percent_change(trough, peak))

\* window = candles[-LOOKBACK_DAYS:]
TrendWindow(cs) == Tail_n(cs, LOOKBACK_DAYS)

\* Lines 131-137.
Confirmed(net_move_pct, directional_closes, pullback_observed, pullback_failed, retrace_pct) ==
    /\ RatGE(RatAbs(net_move_pct), MIN_NET_MOVE_PCT)
    /\ directional_closes >= MIN_DIRECTIONAL_CLOSES
    /\ pullback_observed
    /\ pullback_failed
    /\ RatLE(retrace_pct, MAX_RETRACE_PCT)

\* Line 71: the guard on the number of daily candles.
InsufficientDaily(cs) == Len(cs) < LOOKBACK_DAYS + 1

TrendReasons_firstFailing(window, direction, confirmed) ==
    IF confirmed THEN <<>>
    ELSE IF RatLT(RatAbs(percent_change(window[Len(window)].close, window[1].close)),
                  MIN_NET_MOVE_PCT)
         THEN <<"expansion">>
    ELSE IF DirectionalCloses(window, direction) < MIN_DIRECTIONAL_CLOSES
         THEN <<"persistence">>
    ELSE IF RatGT(RetracePct(window), MAX_RETRACE_PCT)
         THEN <<"retracement">>
    ELSE <<"pullback">>

\* Line 154: the reasons of an evaluated window.
TrendReasons(window, direction, confirmed) == <<>>

evaluate_trend(cs) ==
    IF InsufficientDaily(cs)
    THEN TrendDecision("NO TREND", "None", <<"Insufficient daily data">>, EmptyDict)
    ELSE
    LET window == TrendWindow(cs)
        start_price == window[1].close
        end_price == window[Len(window)].close
        net_move_pct == percent_change(end_price, start_price)
        direction == DirectionOf(net_move_pct)
        directional_closes == DirectionalCloses(window, direction)
        pullback_observed == PullbackObserved(window, direction)
        pullback_failed == PullbackFailed(window, direction)
        retrace_pct == RetracePct(window)
        confirmed == Confirmed(net_move_pct, directional_closes, pullback_observed,
                               pullback_failed, retrace_pct)
        diagnostics == [direction |-> direction,
                        price_then |-> start_price,
                        price_now |-> end_price,
                        net_move_pct |-> net_move_pct,
                        directional_closes |-> directional_closes,
                        pullback_observed |-> pullback_observed,
                        pullback_failed |-> pullback_failed]
    IN  TrendDecision(IF confirmed THEN "TREND CONFIRMED" ELSE "NO TREND",
                      IF confirmed THEN direction ELSE "None",
                      TrendReasons(window, direction, confirmed),
                      diagnostics)

(***************************************************************************)
(* The daily candle sequences the provider may answer with: a close that   *)
(* walks from 100.00 by one of three steps a day, each candle with the     *)
(* same wick above and below its close, the first candle of the window     *)
(* with a wick of its own; candles older than the window sit far below.    *)
(***************************************************************************)
MaxExtraDaily == 1     \* candles answered beyond LOOKBACK_DAYS + 1

DailySteps == {200, -100, -200}

Wicks == {50, 300}

FirstWicks == {50, 6000}

RECURSIVE CloseAt(_, _)
CloseAt(steps, j) == IF j = 1 THEN 10000 ELSE CloseAt(steps, j - 1) + steps[j - 1]

\* n candles whose last LOOKBACK_DAYS closes follow `steps`.
FeedDailyOf(n, steps, w0, w) ==
    [i \in 1..n |->
        LET j == i - (n - LOOKBACK_DAYS)
        IN  IF j < 1 THEN DailyCandle(i, 5000, 5050, 4950, 5000)
            ELSE LET c == CloseAt(steps, j)
                     wk == IF j = 1 THEN w0 ELSE w
                 IN  DailyCandle(i, c, c + wk, c - wk, c)]

LensDaily == LOOKBACK_DAYS..(LOOKBACK_DAYS + 1 + MaxExtraDaily)

FeedsDaily(lens) ==
    {Answer(FeedDailyOf(n, steps, w0, w)) :
        n \in lens, steps \in [1..(LOOKBACK_DAYS - 1) -> DailySteps],
        w0 \in FirstWicks, w \in Wicks}

fetch_kraken_candles_swallow(answer) == Returned(answer.rows)

\* data_source.py: r.raise_for_status() raises when the request failed, a
\* non-empty "error" in the answer raises RuntimeError; otherwise every row
\* becomes a Candle.
fetch_kraken_candles(answer) ==
    IF ~answer.ok
    THEN Raised(IF answer.fault = "api" THEN "RuntimeError" ELSE "HTTPError")
    ELSE Returned(answer.rows)

\* fetch_daily_candles() -> fetch_coinbase_candles(86400, 30) ->
\* fetch_kraken_candles(INTERVAL_1D, 30); no caller catches its exception.
FetchDailyCandles ==
    /\ pc = "trend_fetch"
    /\ fetches' = Append(fetches, "1d")
    /\ IF fetch_kraken_candles(feedDaily).raised
       THEN /\ error' = fetch_kraken_candles(feedDaily).exc
            /\ pc' = "raised"
            /\ UNCHANGED daily_candles
       ELSE /\ daily_candles' = fetch_kraken_candles(feedDaily).rows
            /\ pc' = "trend_eval"
            /\ error' = error
    /\ UNCHANGED <<feed4h, feedDaily, candles, days, last_diagnostics, evaluated,
                   range_result, trend_result, decision, plan_arg, plan_out,
                   label, regime_log, trade_plan_log>>

EvaluateTrend ==
    /\ pc = "trend_eval"
    /\ trend_result' = evaluate_trend(daily_candles)
    /\ pc' = "trend_return"
    /\ UNCHANGED <<feed4h, feedDaily, candles, days, last_diagnostics, evaluated,
                   range_result, daily_candles, decision, error, fetches,
                   plan_arg, plan_out,
                   label, regime_log, trade_plan_log>>

(***************************************************************************)
(* regime_engine.py: decide_regime                                         *)
(***************************************************************************)
RegimeDecision(strategy, regime, notes, rd, td, dir) ==
    [strategy |-> strategy, regime |-> regime, notes |-> notes,
     range_decision |-> rd, trend_decision |-> td, trend_direction |-> dir]

RangeIsValid_typo(rr) == rr.decision = "RANGE_VALID"

\* Line 100.
RangeIsValid(rr) == rr.decision = "RANGE VALID"

\* Lines 101-108.
RangeTradingDecision(rr) ==
    RegimeDecision("RANGE TRADING", "VALID_RANGE (4H)", rr.reasons,
                   rr.decision, "SKIPPED", "None")

\* Lines 146-158.
DriftDecision ==
    RegimeDecision("NO ACTIVE STRATEGY", "DRIFT / TRANSITION",
                   <<"No validated range", "No confirmed trend",
                     "Market between regimes", "Standing down">>,
                   "NO RANGE", "NO TREND", "None")

TrendBranch_upOnly(tr) ==
    IF tr.decision = "TREND CONFIRMED" /\ tr.direction = "UP"
    THEN RegimeDecision("TREND PULLBACK (SPOT)", "TREND CONFIRMED (DAILY, UP)",
                        tr.reasons, "NO RANGE", tr.decision, "UP")
    ELSE DriftDecision

\* Lines 117-158: the decision once the range gate said no.
TrendBranch(tr) ==
    IF tr.decision = "TREND CONFIRMED"
    THEN IF tr.direction = "UP"
         THEN RegimeDecision("TREND PULLBACK (SPOT)", "TREND CONFIRMED (DAILY, UP)",
                             tr.reasons, "NO RANGE", tr.decision, "UP")
         ELSE RegimeDecision("NO ACTIVE STRATEGY", "TREND CONFIRMED (DAILY, DOWN)",
                             <<"Daily structure is bearish",
                               "Long exposure discouraged",
                               "Standing down">> \o tr.reasons,
                             "NO RANGE", tr.decision, "DOWN")
    ELSE DriftDecision

DecideRange_trendAlways ==
    /\ pc = "range_return"
    /\ decision' = decision
    /\ pc' = "trend_fetch"
    /\ UNCHANGED <<feed4h, feedDaily, candles, days, last_diagnostics, evaluated,
                   range_result, daily_candles, trend_result, error, fetches,
                   plan_arg, plan_out, label, regime_log, trade_plan_log>>

\* Lines 98-108: the range gate has returned.
DecideRange ==
    /\ pc = "range_return"
    /\ IF RangeIsValid(range_result)
       THEN /\ decision' = RangeTradingDecision(range_result)
            /\ pc' = "done"
       ELSE /\ decision' = decision
            /\ pc' = "trend_fetch"
    /\ UNCHANGED <<feed4h, feedDaily, candles, days, last_diagnostics, evaluated,
                   range_result, daily_candles, trend_result, error, fetches,
                   plan_arg, plan_out,
                   label, regime_log, trade_plan_log>>

\* Lines 117-158: the trend gate has returned.
DecideTrend ==
    /\ pc = "trend_return"
    /\ decision' = TrendBranch(trend_result)
    /\ pc' = "done"
    /\ UNCHANGED <<feed4h, feedDaily, candles, days, last_diagnostics, evaluated,
                   range_result, daily_candles, trend_result, error, fetches,
                   plan_arg, plan_out,
                   label, regime_log, trade_plan_log>>

(***************************************************************************)
(* trade_plan.py                                                           *)
(***************************************************************************)
Plan(p) == [raised |-> FALSE, exc |-> NoError, plan |-> p]

PlanRaised(exc) == [raised |-> TRUE, exc |-> exc, plan |-> None]

\* generate_range_trade_plan: price levels are kept in 1/100 of a price unit,
\* so that lower + 0.15 * W is 100 * lower + 15 * W.
generate_range_trade_plan(range_decision) ==
    IF ~HasAttr(range_decision, "lower") \/ ~HasAttr(range_decision, "upper")
    THEN PlanRaised("AttributeError")
    ELSE LET L == range_decision.lower
             U == range_decision.upper
             W == U - L
         IN  Plan([strategy |-> "RANGE TRADING",
                   regime |-> "RANGE",
                   range_lower |-> 100 * L,
                   range_upper |-> 100 * U,
                   entry_zone_low |-> 100 * L,
                   entry_zone_high |-> 100 * L + 15 * W,
                   invalidation |-> 100 * L - 10 * W,
                   tp1 |-> 100 * L + 50 * W,
                   tp2 |-> 100 * U - 10 * W,
                   notes |-> "Mean reversion inside validated range"])

\* generate_trend_trade_plan
generate_trend_trade_plan(trend_decision) ==
    IF ~HasAttr(trend_decision, "trend_origin") \/ ~HasAttr(trend_decision, "trend_high")
    THEN PlanRaised("AttributeError")
    ELSE LET O == trend_decision.trend_origin
             H == trend_decision.trend_high
             R == H - O
         IN  Plan([strategy |-> "TREND PULLBACK",
                   regime |-> "TREND_UP",
                   trend_origin |-> 100 * O,
                   trend_high |-> 100 * H,
                   pullback_zone_high |-> 100 * H - 30 * R,
                   pullback_zone_low |-> 100 * H - 50 * R,
                   invalidation |-> 100 * O,
                   target |-> 100 * H,
                   notes |-> "Pullback continuation in confirmed trend"])

\* The range verdict of a RANGE TRADING decision is handed to
\* generate_range_trade_plan(range_decision: RangeDecision).
PlanRange ==
    /\ pc = "done"
    /\ decision.strategy = "RANGE TRADING"
    /\ plan_arg' = range_result
    /\ plan_out' = generate_range_trade_plan(range_result)
    /\ pc' = "planned"
    /\ UNCHANGED <<feed4h, feedDaily, candles, days, last_diagnostics, evaluated,
                   range_result, daily_candles, trend_result, decision, error,
                   fetches,
                   label, regime_log, trade_plan_log>>

\* The trend verdict of a TREND PULLBACK decision is handed to
\* generate_trend_trade_plan(trend_decision: TrendDecision).
PlanTrend ==
    /\ pc = "done"
    /\ decision.strategy = "TREND PULLBACK (SPOT)"
    /\ plan_arg' = trend_result
    /\ plan_out' = generate_trend_trade_plan(trend_result)
    /\ pc' = "planned"
    /\ UNCHANGED <<feed4h, feedDaily, candles, days, last_diagnostics, evaluated,
                   range_result, daily_candles, trend_result, decision, error,
                   fetches,
                   label, regime_log, trade_plan_log>>

\* Boundary prices a caller may put on the object it passes to a generator.
MaxPriceStep == 7

PlanPrices == {10000 + 100 * i : i \in 0..MaxPriceStep}

\* generate_range_trade_plan called with an object carrying .lower and .upper.
CallRangePlan ==
    /\ pc = "plan"
    /\ \E L \in PlanPrices, U \in PlanPrices :
           LET arg == [decision |-> "RANGE VALID", reasons |-> <<>>,
                       lower |-> L, upper |-> U]
           IN  /\ plan_arg' = arg
               /\ plan_out' = generate_range_trade_plan(arg)
    /\ UNCHANGED <<feed4h, feedDaily, pc, candles, days, last_diagnostics,
                   evaluated, range_result, daily_candles, trend_result, decision,
                   error, fetches,
                   label, regime_log, trade_plan_log>>

\* generate_trend_trade_plan called with an object carrying .trend_origin and
\* .trend_high.
CallTrendPlan ==
    /\ pc = "plan"
    /\ \E O \in PlanPrices, H \in PlanPrices :
           LET arg == [decision |-> "TREND CONFIRMED", direction |-> "UP",
                       reasons |-> <<>>, trend_origin |-> O, trend_high |-> H]
           IN  /\ plan_arg' = arg
               /\ plan_out' = generate_trend_trade_plan(arg)
    /\ UNCHANGED <<feed4h, feedDaily, pc, candles, days, last_diagnostics,
                   evaluated, range_result, daily_candles, trend_result, decision,
                   error, fetches,
                   label, regime_log, trade_plan_log>>

(***************************************************************************)
(* The CSV logs: regime_engine.log_decision and trade_plan.log_trade_plan  *)
(***************************************************************************)
\* A row of a CSV file: the header with its column names, or a data row.
HeaderRow(cols) == [header |-> TRUE, cols |-> cols, data |-> None]

DataRow(data) == [header |-> FALSE, cols |-> <<>>, data |-> data]

\* regime_engine.py lines 59-67.
RegimeColumns ==
    <<"timestamp_utc", "strategy", "regime", "range_decision", "trend_decision",
      "trend_direction", "notes">>

\* trade_plan.py lines 82-98.
TradePlanColumns ==
    <<"timestamp_utc", "regime", "strategy", "spot_price", "range_lower",
      "range_upper", "entry_zone_low", "entry_zone_high", "pullback_zone_low",
      "pullback_zone_high", "invalidation", "tp1", "tp2", "target", "notes">>

\* " | ".join(notes)
Joined(notes) == [sep |-> " | ", parts |-> notes]

\* decision.trend_direction or ""
OrEmpty(v) == IF v = "None" THEN "" ELSE v

\* plan.get(key): the value, or None for a key the plan does not have.
Get(plan, key) == IF key \in DOMAIN plan THEN [none |-> FALSE, v |-> plan[key]] ELSE None

WriteRows_headerEachCall(file, cols, data) ==
    File(file.rows \o <<HeaderRow(cols)>> \o <<DataRow(data)>>)

\* file_exists = os.path.isfile(path); open(path, mode="a"); the header row if
\* the file did not exist; then one data row.
WriteRows(file, cols, data) ==
    LET file_exists == file.exists
    IN  File(file.rows
             \o (IF ~file_exists THEN <<HeaderRow(cols)>> ELSE <<>>)
             \o <<DataRow(data)>>)

\* log_decision(decision), called at the instant `now`.
log_decision(file, d, now) ==
    WriteRows(file, RegimeColumns,
              [timestamp_utc |-> now,
               strategy |-> d.strategy,
               regime |-> d.regime,
               range_decision |-> d.range_decision,
               trend_decision |-> d.trend_decision,
               trend_direction |-> OrEmpty(d.trend_direction),
               notes |-> Joined(d.notes)])

\* log_trade_plan(plan, spot_price), called at the instant `now`; spot_price
\* is printed with two decimals and is kept in 1/100 of a price unit.
log_trade_plan(file, plan, spot_price, now) ==
    WriteRows(file, TradePlanColumns,
              [timestamp_utc |-> now,
               regime |-> Get(plan, "regime"),
               strategy |-> Get(plan, "strategy"),
               spot_price |-> spot_price,
               range_lower |-> Get(plan, "range_lower"),
               range_upper |-> Get(plan, "range_upper"),
               entry_zone_low |-> Get(plan, "entry_zone_low"),
               entry_zone_high |-> Get(plan, "entry_zone_high"),
               pullback_zone_low |-> Get(plan, "pullback_zone_low"),
               pullback_zone_high |-> Get(plan, "pullback_zone_high"),
               invalidation |-> Get(plan, "invalidation"),
               tp1 |-> Get(plan, "tp1"),
               tp2 |-> Get(plan, "tp2"),
               target |-> Get(plan, "target"),
               notes |-> Get(plan, "notes")])

MaxLogRows == 4     \* rows a log file may grow to

\* The readings of the clock.
Instants == {1, 2}

\* Decisions decide_regime hands to log_decision.
LoggedDecisions ==
    {DriftDecision,
     TrendBranch([decision |-> "TREND CONFIRMED", direction |-> "DOWN", reasons |-> <<>>])}

\* Plans the generators hand to log_trade_plan.
LoggedPlans ==
    {generate_range_trade_plan([decision |-> "RANGE VALID", reasons |-> <<>>,
                                lower |-> 10000, upper |-> 10800]).plan,
     generate_trend_trade_plan([decision |-> "TREND CONFIRMED", direction |-> "UP",
                                reasons |-> <<>>, trend_origin |-> 10000,
                                trend_high |-> 10800]).plan}

LogDecision ==
    /\ pc = "log"
    /\ Len(regime_log.rows) < MaxLogRows
    /\ \E d \in LoggedDecisions, now \in Instants :
           regime_log' = log_decision(regime_log, d, now)
    /\ UNCHANGED <<feed4h, feedDaily, pc, candles, days, last_diagnostics,
                   evaluated, range_result, daily_candles, trend_result, decision,
                   error, fetches, plan_arg, plan_out, label, trade_plan_log>>

LogTradePlan ==
    /\ pc = "log"
    /\ Len(trade_plan_log.rows) < MaxLogRows
    /\ \E plan \in LoggedPlans, now \in Instants :
           trade_plan_log' = log_trade_plan(trade_plan_log, plan, 10400, now)
    /\ UNCHANGED <<feed4h, feedDaily, pc, candles, days, last_diagnostics,
                   evaluated, range_result, daily_candles, trend_result, decision,
                   error, fetches, plan_arg, plan_out, label, regime_log>>

\* The state before any call.
Blank ==
    /\ candles = <<>>
    /\ days = 0
    /\ last_diagnostics = <<>>
    /\ evaluated = <<>>
    /\ range_result = None
    /\ daily_candles = <<>>
    /\ trend_result = None
    /\ decision = None
    /\ error = NoError
    /\ fetches = <<>>
    /\ plan_arg = None
    /\ plan_out = None
    /\ label = "None"
    /\ regime_log = Absent
    /\ trade_plan_log = Absent

\* range_gate.py run on its own (its CLI entry point).
InitRange ==
    /\ feed4h \in Feeds4h(Lens4h) \cup {ProviderDown}
    /\ feedDaily = ProviderDown
    /\ pc = "range_fetch"
    /\ Blank

NextRange == FetchCandles \/ RangeLoopStep \/ RangeNoRange

SpecRange == InitRange /\ [][NextRange]_vars

(***************************************************************************)
(* Properties of the range gate                                            *)
(***************************************************************************)
\* The day count a valid verdict reports ("Valid {days}-day range detected").
ReportedDays(rr) == rr.reasons[1].v

RangeReturned == pc = "range_return" /\ range_result # None

\* C2: the candidate day counts are tried in the order min_days..max_days, one
\* after the other; no window is evaluated after a valid one; and a verdict
\* valid for day count d means that exactly min_days..d were evaluated, that d
\* validated and that no shorter day count validates on the fetched candles.
C2_AscendingExhaustive ==
    /\ \A i \in 1..Len(evaluated) :
           /\ evaluated[i].days = LOOKBACK_DAYS_MIN + i - 1
           /\ evaluated[i].days <= LOOKBACK_DAYS_MAX
           /\ i < Len(evaluated) => ~evaluated[i].valid
    /\ (RangeReturned /\ range_result.decision = "RANGE VALID") =>
           LET d == ReportedDays(range_result)
           IN  /\ Len(evaluated) = d - LOOKBACK_DAYS_MIN + 1
               /\ evaluated[Len(evaluated)].valid
               /\ evaluate_window(candles, d).valid
               /\ \A e \in LOOKBACK_DAYS_MIN..(d - 1) : ~evaluate_window(candles, e).valid
    /\ (RangeReturned /\ range_result.decision = "NO RANGE" /\ evaluated # <<>>) =>
           /\ Len(evaluated) = LOOKBACK_DAYS_MAX - LOOKBACK_DAYS_MIN + 1
           /\ ~evaluated[Len(evaluated)].valid

\* C2 witness: a verdict valid for a day count above min_days, reached after
\* the shorter windows were evaluated and rejected.
C2_Witness ==
    /\ RangeReturned
    /\ range_result.decision = "RANGE VALID"
    /\ ReportedDays(range_result) = LOOKBACK_DAYS_MIN + 1
    /\ Len(evaluated) = 2

\* The trailing d * candles_per_day candles of cs, by position.
ExactWindow(cs, d) ==
    [i \in 1..(d * CANDLES_PER_DAY) |-> cs[Len(cs) - d * CANDLES_PER_DAY + i]]

\* The five rules of a range, stated on a window w.
FiveRulesPass(w) ==
    LET idx == 1..Len(w)
        upper == CHOOSE h \in {w[i].high : i \in idx} : \A i \in idx : w[i].high <= h
        lower == CHOOSE l \in {w[i].low : i \in idx} : \A i \in idx : w[i].low >= l
        first == w[Len(w) - 2 * CANDLES_PER_DAY + 1].close
        last == w[Len(w)].close
        rejections == {i \in idx :
            /\ 10000 * w[i].high >= (10000 - PROXIMITY_PCT) * upper
            /\ 10000 * w[i].close >= (10000 - PROXIMITY_PCT) * upper
            /\ w[i].close < upper}
        bounces == {i \in idx :
            /\ 10000 * w[i].low <= (10000 + PROXIMITY_PCT) * lower
            /\ 10000 * w[i].close <= (10000 + PROXIMITY_PCT) * lower
            /\ w[i].close > lower}
    IN  /\ (upper - lower) * 10000 >= MIN_RANGE_WIDTH_PCT * lower
        /\ Cardinality({i \in idx : lower <= w[i].close /\ w[i].close <= upper})
               * 10000 >= MIN_CLOSES_INSIDE_PCT * Len(w)
        /\ Cardinality(rejections) >= MIN_REJECTIONS
        /\ Cardinality(bounces) >= MIN_BOUNCES
        /\ Abs(last - first) * 10000 <= TREND_EXPANSION_PCT * first

\* C3: the window evaluate_window has just judged is reported valid exactly
\* when the five rules (width, closes inside, upper rejections, lower bounces,
\* two-day stability) all pass on the trailing days x candles_per_day candles.
C3_ValidIffFiveRules ==
    evaluated # <<>> =>
        LET e == evaluated[Len(evaluated)]
        IN  e.valid <=> FiveRulesPass(ExactWindow(candles, e.days))

\* C3 witness: a window was judged valid while the fetched sequence holds
\* candles older than that window.
C3_Witness ==
    /\ evaluated # <<>>
    /\ evaluated[Len(evaluated)].valid
    /\ Len(candles) > evaluated[Len(evaluated)].days * CANDLES_PER_DAY

\* C7: fewer candles than max_days x candles_per_day give NO RANGE with the
\* single reason "Insufficient candle data", no rule diagnostics, and no
\* evaluate_window call.
C7_InsufficientData ==
    (feed4h.ok /\ fetches # <<>> /\ Len(feed4h.rows) < LOOKBACK_DAYS_MAX * CANDLES_PER_DAY) =>
        /\ pc = "range_return"
        /\ range_result = RangeDecision("NO RANGE", <<Item("Insufficient candle data", 0)>>)
        /\ evaluated = <<>>

\* C7 witness: the gate returned on a sequence too short for max_days but long
\* enough for the shorter candidate windows.
C7_Witness ==
    /\ RangeReturned
    /\ Len(candles) < LOOKBACK_DAYS_MAX * CANDLES_PER_DAY
    /\ Len(candles) >= (LOOKBACK_DAYS_MAX - 1) * CANDLES_PER_DAY

\* trend_gate.py run on its own (its CLI entry point).
InitTrend ==
    /\ feed4h = ProviderDown
    /\ feedDaily \in FeedsDaily(LensDaily) \cup {ProviderDown, ProviderError}
    /\ pc = "trend_fetch"
    /\ Blank

NextTrend == FetchDailyCandles \/ EvaluateTrend

SpecTrend == InitTrend /\ [][NextTrend]_vars

(***************************************************************************)
(* Properties of the trend gate                                            *)
(***************************************************************************)
TrendReturned == pc = "trend_return" /\ trend_result # None

\* The last LOOKBACK_DAYS candles of cs, by position.
LookbackWindow(cs) == [i \in 1..LOOKBACK_DAYS |-> cs[Len(cs) - LOOKBACK_DAYS + i]]

\* The four conditions of a confirmed trend, stated on a window w.
ExpansionPasses(w) ==
    Abs(w[Len(w)].close - w[1].close) * 10000 >= MIN_NET_MOVE_PCT * w[1].close

DetectedUp(w) == w[Len(w)].close > w[1].close

PersistencePasses(w) ==
    Cardinality({i \in 2..Len(w) :
        IF DetectedUp(w) THEN w[i].close > w[i - 1].close
                         ELSE w[i].close < w[i - 1].close}) >= MIN_DIRECTIONAL_CLOSES

RetracementPasses(w) ==
    LET idx == 1..Len(w)
        peak == CHOOSE h \in {w[i].high : i \in idx} : \A i \in idx : w[i].high <= h
        trough == CHOOSE l \in {w[i].low : i \in idx} : \A i \in idx : w[i].low >= l
    IN  Abs(peak - trough) * 10000 <= MAX_RETRACE_PCT * peak

PullbackAt(w, i) ==
    IF DetectedUp(w) THEN w[i].close < w[i - 1].close ELSE w[i].close > w[i - 1].close

PullbackPasses(w) ==
    /\ \E i \in 2..Len(w) : PullbackAt(w, i)
    /\ \E i \in 2..Len(w) :
           /\ PullbackAt(w, i)
           /\ IF DetectedUp(w) THEN w[i].low > w[1].close ELSE w[i].high < w[1].close

FourConditionsPass(w) ==
    /\ ExpansionPasses(w)
    /\ PersistencePasses(w)
    /\ RetracementPasses(w)
    /\ PullbackPasses(w)

\* The first condition that fails, in the order expansion, persistence,
\* retracement bound, pullback failure.
FirstFailing(w) ==
    CASE ~ExpansionPasses(w) -> "expansion"
      [] ExpansionPasses(w) /\ ~PersistencePasses(w) -> "persistence"
      [] ExpansionPasses(w) /\ PersistencePasses(w) /\ ~RetracementPasses(w) -> "retracement"
      [] OTHER -> "pullback"

\* C4 as claimed: the verdict is CONFIRMED exactly when the four conditions
\* hold on the last LOOKBACK_DAYS daily candles, and NONE otherwise.
C4_ConfirmedIffFourConditions ==
    TrendReturned =>
        /\ trend_result.decision \in {"TREND CONFIRMED", "NO TREND"}
        /\ trend_result.decision = "TREND CONFIRMED"
               <=> FourConditionsPass(LookbackWindow(daily_candles))

\* What the code does instead: the verdict is CONFIRMED exactly when the four
\* conditions hold and at least LOOKBACK_DAYS + 1 daily candles were fetched;
\* a sequence of exactly LOOKBACK_DAYS candles is turned away by the guard of
\* line 71 although it fills the window.
ConfirmedIffFourConditionsAndOneMoreCandle ==
    TrendReturned =>
        /\ trend_result.decision \in {"TREND CONFIRMED", "NO TREND"}
        /\ trend_result.decision = "TREND CONFIRMED"
               <=> /\ Len(daily_candles) >= LOOKBACK_DAYS + 1
                   /\ FourConditionsPass(LookbackWindow(daily_candles))

InitPlan ==
    /\ feed4h = ProviderDown
    /\ feedDaily = ProviderDown
    /\ pc = "plan"
    /\ Blank

NextPlan == CallRangePlan \/ CallTrendPlan

SpecPlan == InitPlan /\ [][NextPlan]_vars

(***************************************************************************)
(* regime_engine.py run as a whole: one decide_regime cycle, then the plan *)
(* of the chosen strategy.  The provider answers are drawn from the cases  *)
(* that separate the branches of the combinator.                           *)
(***************************************************************************)
EngineKinds(touch) ==
    {ks \in [Slots -> {touch, "Lo", "Mid"}] :
        /\ ks[1] = touch /\ ks[2] = touch
        /\ \A j \in Slots : j > 2 => ks[j] \in {"Lo", "Mid"}}

EngineFeeds4h(lens) ==
    {Answer(Feed4hOf(n, ks, FALSE)) : n \in lens, ks \in EngineKinds("Up")}

\* A walk of equal pushes with one pullback at step j (none when j = 0).
OnePullback(j, push, pull) ==
    [i \in 1..(LOOKBACK_DAYS - 1) |-> IF i = j THEN pull ELSE push]

EngineFeedsDaily(lens) ==
    {Answer(FeedDailyOf(n, OnePullback(j, 200, -100), 50, 50)) :
        n \in lens, j \in 0..(LOOKBACK_DAYS - 1)}
    \cup
    {Answer(FeedDailyOf(n, OnePullback(j, -200, 200), 50, 50)) :
        n \in lens, j \in 0..(LOOKBACK_DAYS - 1)}

Init ==
    /\ feed4h \in EngineFeeds4h({MinNeeded - 1, MinNeeded}) \cup {ProviderDown}
    /\ feedDaily \in EngineFeedsDaily({LOOKBACK_DAYS, LOOKBACK_DAYS + 1})
                         \cup {ProviderDown, ProviderError}
    /\ pc = "range_fetch"
    /\ Blank

Next ==
    \/ FetchCandles
    \/ RangeLoopStep
    \/ RangeNoRange
    \/ DecideRange
    \/ FetchDailyCandles
    \/ EvaluateTrend
    \/ DecideTrend
    \/ PlanRange
    \/ PlanTrend

Spec == Init /\ [][Next]_vars

(***************************************************************************)
(* Properties of the regime combinator                                     *)
(***************************************************************************)
RangeVerdictValid == range_result # None /\ range_result.decision = "RANGE VALID"

RangeVerdictNotValid == range_result # None /\ range_result.decision = "NO RANGE"

Decided == pc \in {"done", "planned"}

\* The verdict the trend gate would give on the daily provider's answer.
WouldBeTrend == evaluate_trend(feedDaily.rows)

\* C1: once the range gate has returned a valid verdict, decide_regime returns,
\* and returns the strategy RANGE TRADING, whatever the daily provider would
\* answer and whatever verdict the trend gate would give on it.
C1_RangeDominates ==
    (RangeVerdictValid /\ pc # "range_return") =>
        /\ Decided
        /\ decision.strategy = "RANGE TRADING"
        /\ decision.range_decision = "RANGE VALID"

\* C1 witness: RANGE TRADING was decided while the daily candles show a
\* confirmed uptrend.
C1_Witness ==
    /\ pc = "done"
    /\ RangeVerdictValid
    /\ decision.strategy = "RANGE TRADING"
    /\ feedDaily.ok
    /\ WouldBeTrend.decision = "TREND CONFIRMED"
    /\ WouldBeTrend.direction = "UP"

Times(what) == Cardinality({i \in 1..Len(fetches) : fetches[i] = what})

\* C6: when the 4H request or the daily request fails, decide_regime ends by
\* raising: no verdict of the failed gate and no RegimeDecision exist, and no
\* provider is asked a second time.
C6_FailurePropagates ==
    /\ (Times("4h") > 0 /\ ~feed4h.ok) =>
           /\ pc = "raised"
           /\ error # NoError
           /\ range_result = None
           /\ trend_result = None
           /\ decision = None
    /\ (Times("1d") > 0 /\ ~feedDaily.ok) =>
           /\ pc = "raised"
           /\ error # NoError
           /\ trend_result = None
           /\ decision = None
    /\ pc = "raised" => decision = None /\ plan_out = None
    /\ Times("4h") <= 1
    /\ Times("1d") <= 1

\* C6 witness: the daily request failed after the range gate said NO RANGE.
C6_Witness ==
    /\ pc = "raised"
    /\ RangeVerdictNotValid
    /\ Times("1d") = 1
    /\ ~feedDaily.ok
    /\ decision = None

\* C8: with no valid range, a confirmed downtrend gives NO ACTIVE STRATEGY
\* under a regime label and notes that are not those of the drift branch, and
\* an unconfirmed trend gives the drift branch: the two are never reported
\* under the same label.
C8_BearishDistinctFromDrift ==
    (Decided /\ RangeVerdictNotValid /\ trend_result # None) =>
        /\ (trend_result.decision = "TREND CONFIRMED" /\ trend_result.direction = "DOWN") =>
               /\ decision.strategy = "NO ACTIVE STRATEGY"
               /\ decision.regime # DriftDecision.regime
               /\ decision.notes # DriftDecision.notes
               /\ decision.trend_direction = "DOWN"
        /\ trend_result.decision # "TREND CONFIRMED" =>
               /\ decision = DriftDecision
               /\ decision.regime # "TREND CONFIRMED (DAILY, DOWN)"

\* C8 witness: a decision taken on a confirmed downtrend with no valid range.
C8_Witness ==
    /\ pc = "done"
    /\ RangeVerdictNotValid
    /\ trend_result # None
    /\ trend_result.decision = "TREND CONFIRMED"
    /\ trend_result.direction = "DOWN"
    /\ decision.strategy = "NO ACTIVE STRATEGY"

\* C10 as claimed: every valid range verdict carries upper > lower, every
\* confirmed uptrend verdict carries high > origin, and the generator reads
\* them: a plan is produced from every verdict the engine hands over.
C10_VerdictsExposeBoundaries ==
    /\ RangeVerdictValid =>
           /\ HasAttr(range_result, "lower")
           /\ HasAttr(range_result, "upper")
           /\ range_result.upper > range_result.lower
    /\ (trend_result # None /\ trend_result.decision = "TREND CONFIRMED"
            /\ trend_result.direction = "UP") =>
           /\ HasAttr(trend_result, "trend_origin")
           /\ HasAttr(trend_result, "trend_high")
           /\ trend_result.trend_high > trend_result.trend_origin
    /\ pc = "planned" => ~plan_out.raised

\* The boundaries themselves are ordered: a valid window has max(high) >
\* min(low), and a confirmed uptrend has max(high) of its window above the
\* window's first close.
BoundariesOrdered ==
    /\ RangeVerdictValid =>
           LET w == ExactWindow(candles, ReportedDays(range_result))
           IN  SeqMax([i \in 1..Len(w) |-> w[i].high]) > SeqMin([i \in 1..Len(w) |-> w[i].low])
    /\ (trend_result # None /\ trend_result.decision = "TREND CONFIRMED"
            /\ trend_result.direction = "UP") =>
           LET w == LookbackWindow(daily_candles)
           IN  SeqMax([i \in 1..Len(w) |-> w[i].high]) > w[1].close

(***************************************************************************)
(* Properties of the trade plan generator                                  *)
(***************************************************************************)
\* The boundary pair of the generator's argument is degenerate.
Degenerate(arg) ==
    \/ HasAttr(arg, "lower") /\ arg.upper <= arg.lower
    \/ HasAttr(arg, "trend_origin") /\ arg.trend_high <= arg.trend_origin

\* C9 as claimed: a well-formed boundary pair gives a plan; upper <= lower or
\* high <= origin gives InvalidBoundaryError and no plan.
C9_DegeneratePairRejected ==
    plan_arg # None =>
        IF Degenerate(plan_arg)
        THEN plan_out.raised /\ plan_out.exc = "InvalidBoundaryError" /\ plan_out.plan = None
        ELSE ~plan_out.raised /\ plan_out.plan # None

(***************************************************************************)
(* The log files, written by any sequence of log calls                     *)
(***************************************************************************)
InitLog ==
    /\ feed4h = ProviderDown
    /\ feedDaily = ProviderDown
    /\ pc = "log"
    /\ Blank

NextLog == LogDecision \/ LogTradePlan

SpecLog == InitLog /\ [][NextLog]_vars

\* The file holds its header row first and data rows after it.
OneHeaderFirst(file, cols) ==
    /\ file.exists
    /\ file.rows # <<>>
    /\ file.rows[1] = HeaderRow(cols)
    /\ \A i \in 2..Len(file.rows) : ~file.rows[i].header

\* `after` is `before` with one data row appended (after the header row when
\* `before` did not exist) and every earlier row as it was.
OneRowAppended(before, after, cols) ==
    /\ Len(after.rows) = (IF before.exists THEN Len(before.rows) ELSE 1) + 1
    /\ \A i \in 1..Len(before.rows) : after.rows[i] = before.rows[i]
    /\ ~after.rows[Len(after.rows)].header
    /\ OneHeaderFirst(after, cols)

\* C11: starting from absent log files, every log call leaves the file it
\* writes with exactly one header row, in first place, appends exactly one
\* data row and leaves every earlier row as it was; the other file is not
\* touched.
C11_OneHeaderThenAppend ==
    [][\/ /\ OneRowAppended(regime_log, regime_log', RegimeColumns)
          /\ trade_plan_log' = trade_plan_log
       \/ /\ OneRowAppended(trade_plan_log, trade_plan_log', TradePlanColumns)
          /\ regime_log' = regime_log]_vars

\* C11 witness: both files were created by a first call and written again by
\* later calls.
C11_Witness ==
    /\ regime_log.exists
    /\ Len(regime_log.rows) >= 3
    /\ trade_plan_log.exists
    /\ Len(trade_plan_log.rows) >= 3
    /\ regime_log.rows[2] # regime_log.rows[3]

(***************************************************************************)
(* range_gate.py run on its own, with the regime label                     *)
(***************************************************************************)
LabelKinds == {"Mid", "Up", "Lo", "Edge"}

\* Wide and narrow sequences whose older slots are quiet or touch the low.
LabelFeeds4h(lens) ==
    {Answer(Feed4hOf(n, ks, narrow)) :
        n \in lens, narrow \in BOOLEAN,
        ks \in {f \in [Slots -> LabelKinds] : \A j \in 4..6 : f[j] \in {"Mid", "Lo"}}}

InitLabel ==
    /\ feed4h \in LabelFeeds4h({MinNeeded - 1, MinNeeded}) \cup {ProviderDown}
    /\ feedDaily = ProviderDown
    /\ pc = "range_fetch"
    /\ Blank

NextLabel == FetchCandles \/ RangeLoopStep \/ RangeNoRange \/ ClassifyRegime

SpecLabel == InitLabel /\ [][NextLabel]_vars

\* upper and lower of a window w.
UpperOf(w) == CHOOSE h \in {w[i].high : i \in 1..Len(w)} : \A i \in 1..Len(w) : w[i].high <= h

LowerOf(w) == CHOOSE l \in {w[i].low : i \in 1..Len(w)} : \A i \in 1..Len(w) : w[i].low >= l

\* The five rules on a window w, one by one.
WidthPasses(w) ==
    LET upper == UpperOf(w)
        lower == LowerOf(w)
    IN  (upper - lower) * 10000 >= MIN_RANGE_WIDTH_PCT * lower

InsideCount(w) ==
    LET upper == UpperOf(w)
        lower == LowerOf(w)
    IN  Cardinality({i \in 1..Len(w) : lower <= w[i].close /\ w[i].close <= upper})

ContainmentPasses(w) == InsideCount(w) * 10000 >= MIN_CLOSES_INSIDE_PCT * Len(w)

RejectionCount(w) ==
    LET upper == UpperOf(w)
    IN  Cardinality({i \in 1..Len(w) :
            /\ 10000 * w[i].high >= (10000 - PROXIMITY_PCT) * upper
            /\ 10000 * w[i].close >= (10000 - PROXIMITY_PCT) * upper
            /\ w[i].close < upper})

UpperRejectionPasses(w) == RejectionCount(w) >= MIN_REJECTIONS

BounceCount(w) ==
    LET lower == LowerOf(w)
    IN  Cardinality({i \in 1..Len(w) :
            /\ 10000 * w[i].low <= (10000 + PROXIMITY_PCT) * lower
            /\ 10000 * w[i].close <= (10000 + PROXIMITY_PCT) * lower
            /\ w[i].close > lower})

LowerBouncePasses(w) == BounceCount(w) >= MIN_BOUNCES

RecentFirst(w) == w[Len(w) - 2 * CANDLES_PER_DAY + 1].close

RecentMove(w) == Abs(w[Len(w)].close - RecentFirst(w))

StabilityPasses(w) == RecentMove(w) * 10000 <= TREND_EXPANSION_PCT * RecentFirst(w)

\* The label the rule outcomes of w call for.
RuleLabel(w) ==
    IF ~StabilityPasses(w) THEN "DIRECTIONAL_EXPANSION"
    ELSE IF /\ WidthPasses(w)
            /\ ContainmentPasses(w)
            /\ (~UpperRejectionPasses(w) \/ ~LowerBouncePasses(w))
         THEN "CONTAINED_BUT_UNTESTED"
         ELSE "CHAOTIC_OR_UNSTRUCTURED"

\* The gate returned NO RANGE after evaluating windows, and was labelled.
LabelledFailure ==
    /\ pc = "labelled"
    /\ range_result.decision = "NO RANGE"
    /\ evaluated # <<>>

\* The window the verdict reports ("Window checked: {days} days").
ReportedWindow == ExactWindow(candles, range_result.reasons[1].v)

\* C12: on a failed range verdict the label is the one the rule outcomes of
\* the reported window call for: DIRECTIONAL_EXPANSION exactly when stability
\* failed, otherwise CONTAINED_BUT_UNTESTED exactly when width and containment
\* passed and a boundary-touch rule failed, otherwise CHAOTIC_OR_UNSTRUCTURED.
C12_LabelAgreesWithRules ==
    LabelledFailure => label = RuleLabel(ReportedWindow)

\* A value of w that fails (or passes) its rule while its printed, rounded
\* form lies on the other side of the threshold: width in [1.495, 1.5),
\* closes inside in [94.95, 95), recent move in (1.0, 1.005).
RoundsAcross(w) ==
    \/ /\ ~WidthPasses(w)
       /\ 2 * (UpperOf(w) - LowerOf(w)) * 10000 >= (2 * MIN_RANGE_WIDTH_PCT - 1) * LowerOf(w)
    \/ /\ ~ContainmentPasses(w)
       /\ 2 * InsideCount(w) * 10000 >= (2 * MIN_CLOSES_INSIDE_PCT - 10) * Len(w)
    \/ /\ ~StabilityPasses(w)
       /\ 2 * RecentMove(w) * 10000 < (2 * TREND_EXPANSION_PCT + 1) * RecentFirst(w)

\* Away from those values the label is the one the rule outcomes call for.
LabelAgreesUnlessRoundedAcross ==
    (LabelledFailure /\ ~RoundsAcross(ReportedWindow)) =>
        label = RuleLabel(ReportedWindow)

\* The disagreement: the width rule failed, the label says contained.
LabelDisagrees ==
    /\ LabelledFailure
    /\ ~WidthPasses(ReportedWindow)
    /\ label = "CONTAINED_BUT_UNTESTED"

(***************************************************************************)
(* The verdict when no candidate day count validates                       *)
(***************************************************************************)
\* The five diagnostics of a window w, as printed.
DiagnosticsOf(w) ==
    << Item("Range width: {:.2f}%",
            Fmt(Rat((UpperOf(w) - LowerOf(w)) * 100, LowerOf(w)), 100)),
       Item("Closes inside: {:.1f}%", Fmt(Rat(InsideCount(w) * 100, Len(w)), 10)),
       Item("Upper rejections: {}", RejectionCount(w)),
       Item("Lower bounces: {}", BounceCount(w)),
       Item("Recent 2d move: {:.2f}%", Fmt(Rat(RecentMove(w) * 100, RecentFirst(w)), 100)) >>

\* The rules in the order evaluate_window evaluates them, with the text of
\* the failure line of each.
RuleOrder ==
    << "Range width {:.2f}% < MIN_RANGE_WIDTH_PCT",
       "Closes inside range {:.1f}% < MIN_CLOSES_INSIDE_PCT",
       "Upper rejections {} < MIN_REJECTIONS",
       "Lower bounces {} < MIN_BOUNCES",
       "Recent 2d move {:.2f}% > TREND_EXPANSION_PCT" >>

RuleFails(w, n) ==
    CASE n = 1 -> ~WidthPasses(w)
      [] n = 2 -> ~ContainmentPasses(w)
      [] n = 3 -> ~UpperRejectionPasses(w)
      [] n = 4 -> ~LowerBouncePasses(w)
      [] n = 5 -> ~StabilityPasses(w)

\* The gate returned after every candidate was evaluated and none validated.
NoCandidateValidated ==
    /\ RangeReturned
    /\ evaluated # <<>>
    /\ \A i \in 1..Len(evaluated) : ~evaluated[i].valid

\* C13: when no candidate day count validates, the verdict is NO RANGE for
\* the max_days window: after the line naming that window come the five
\* diagnostics of exactly that window and nothing of a shorter one, then the
\* failure lines of exactly the rules that fail on it, in rule-evaluation
\* order (width, closes inside, upper rejections, lower bounces, stability).
C13_LastCandidateOnly ==
    NoCandidateValidated =>
        LET w == ExactWindow(candles, LOOKBACK_DAYS_MAX)
            rs == range_result.reasons
            failed == SelectSeq([n \in 1..Len(RuleOrder) |-> n], LAMBDA n : RuleFails(w, n))
        IN  /\ range_result.decision = "NO RANGE"
            /\ rs[1] = Item("Window checked: {} days", LOOKBACK_DAYS_MAX)
            /\ SubSeq(rs, 2, 6) = DiagnosticsOf(w)
            /\ rs[7] = FAILURES
            /\ failed # <<>>
            /\ Len(rs) = 7 + Len(failed)
            /\ \A i \in 1..Len(failed) : rs[7 + i].k = RuleOrder[failed[i]]

\* C13 witness: four candidates were rejected, the max_days window fails at
\* least two rules, and its diagnostics differ from those of the candidate
\* before it.
C13_Witness ==
    /\ NoCandidateValidated
    /\ Len(evaluated) = LOOKBACK_DAYS_MAX - LOOKBACK_DAYS_MIN + 1
    /\ Len(range_result.reasons) >= 9
    /\ DiagnosticsOf(ExactWindow(candles, LOOKBACK_DAYS_MAX))
           # DiagnosticsOf(ExactWindow(candles, LOOKBACK_DAYS_MAX - 1))

(***************************************************************************)
(* The order of the two gates in one decide_regime cycle                   *)
(***************************************************************************)
\* C14: the 4H candles are requested and the range gate returns before the
\* daily candles are requested; and once the range verdict is valid the daily
\* provider is never asked, evaluate_trend never runs, no exception leaves the
\* call, and the decision is RANGE TRADING with the trend decision recorded
\* as SKIPPED, whatever the daily provider would have answered.
C14_RangeGateFirstTrendSkipped ==
    /\ fetches \in {<<>>, <<"4h">>, <<"4h", "1d">>}
    /\ Times("1d") > 0 => RangeVerdictNotValid
    /\ trend_result # None => RangeVerdictNotValid
    /\ RangeVerdictValid =>
           /\ fetches = <<"4h">>
           /\ daily_candles = <<>>
           /\ trend_result = None
           /\ error = NoError
           /\ pc \in {"range_return", "done", "planned"}
           /\ Decided =>
                  /\ decision.strategy = "RANGE TRADING"
                  /\ decision.trend_decision = "SKIPPED"
                  /\ decision.trend_direction = "None"
                  /\ decision.notes = range_result.reasons

\* C14 witness: RANGE TRADING was decided although the daily provider is down.
C14_Witness ==
    /\ pc = "done"
    /\ RangeVerdictValid
    /\ ~feedDaily.ok
    /\ decision.strategy = "RANGE TRADING"
    /\ decision.trend_decision = "SKIPPED"

====
